---- MODULE Spec2Model ----
(***************************************************************************)
(* Model of utility/generate_static_ocp_settings.py: the generator of      *)
(* koku-nise OCP static settings (nodes -> namespaces -> pods / volumes -> *)
(* volume claims), its name and resource-id caches, its config validation  *)
(* and its output step.                                                    *)
(*                                                                         *)
(* A Python str is a sequence of tokens.  "-" is the hyphen; every other   *)
(* token is a hyphen-free piece of text (a faker word, a decimal digit,    *)
(* the literals "pod", "vol", "claim").  The empty sequence is "".         *)
(***************************************************************************)
EXTENDS Integers, Sequences, FiniteSets, TLC

VARIABLES
    SEEN_NAMES,          \* module global SEEN_NAMES
    SEEN_RESOURCE_IDS,   \* module global SEEN_RESOURCE_IDS
    gn,                  \* frame of the generate_name call in progress
    gn_pc,               \* position of the caller of generate_name
    calls,               \* number of generate_name calls made so far
    config,              \* the dicta init_config returns
    is_random,           \* build_data's parameter _random
    pc,                  \* position of the process in build_data and around it
    err,                 \* the exception that ended the process, "" when none
    frame,               \* build_data's loop variables and loop bounds
    data,                \* build_data's local `data`
    builds,              \* number of build_data calls made so far
    names_out,           \* every value generate_name has returned to build_data
    names_repeated,      \* those of them returned more than once
    ids_out,             \* every value generate_resource_id has returned
    ids_repeated,        \* those of them returned more than once
    args,                \* the Namespace handle_args returns
    stdout,              \* the texts written to sys.stdout
    files,               \* the (path, text) pairs written to files
    vconfig,             \* the mapping validate_config is called on
    vresult              \* what validate_config did

name_vars == <<gn, gn_pc, calls>>
io_vars == <<args, stdout, files>>
val_vars == <<vconfig, vresult>>
build_vars == <<config, is_random, pc, err, frame, data, builds,
                names_out, names_repeated, ids_out, ids_repeated>>
vars == <<SEEN_NAMES, SEEN_RESOURCE_IDS, name_vars, build_vars, io_vars, val_vars>>

-----------------------------------------------------------------------------
(* Bounds of the model *)

NumWords == 2        \* size of the pool FAKER.words draws from
MaxCalls == 3        \* generate_name calls of one process in SpecName
MaxBuilds == 2       \* build_data calls of one process
MaxCount == 2        \* largest configured cardinality

-----------------------------------------------------------------------------
(* Strings *)

DASH == "-"

Words == {"w" \o ToString(i) : i \in 1..NumWords}

RECURSIVE Str(_)
Str(n) ==
    IF n < 10 THEN <<ToString(n)>> ELSE Append(Str(n \div 10), ToString(n % 10))

RECURSIVE ZFill(_, _)
ZFill(s, width) == IF Len(s) >= width THEN s ELSE ZFill(<<"0">> \o s, width)

RECURSIVE JoinDash(_)
JoinDash(ws) ==
    IF Len(ws) = 0 THEN <<>>
    ELSE IF Len(ws) = 1 THEN <<ws[1]>>
    ELSE <<ws[1], DASH>> \o JoinDash(Tail(ws))

\* DBL_DASH.sub("-", s): every maximal run of hyphens becomes one hyphen
RECURSIVE DBL_DASH_sub(_)
DBL_DASH_sub(s) ==
    IF Len(s) = 0 THEN <<>>
    ELSE IF Len(s) >= 2 /\ s[1] = DASH /\ s[2] = DASH THEN DBL_DASH_sub(Tail(s))
    ELSE <<s[1]>> \o DBL_DASH_sub(Tail(s))

RECURSIVE Pow10(_)
Pow10(n) == IF n = 0 THEN 1 ELSE 10 * Pow10(n - 1)

\* FAKER.random_int(lo, hi, step): random.randrange(lo, hi + 1, step), step > 0
random_int(lo, hi, step) == {x \in lo..hi : (x - lo) % step = 0}

-----------------------------------------------------------------------------
(* Name generators *)

generate_words(cfg) ==
    {JoinDash(ws) : ws \in [1..cfg.max_name_words -> Words]}

generate_number_str(cfg) ==
    {ZFill(Str(n), cfg.max_resource_id_length) :
        n \in random_int(0, Pow10(cfg.max_resource_id_length), 1)}

\* the values `generator(config) if dynamic else ""` can take
Mids(cfg, dynamic, generator) ==
    IF ~dynamic THEN {<<>>}
    ELSE IF generator = "generate_words" THEN generate_words(cfg)
    ELSE generate_number_str(cfg)

\* mutant of GenNameIter: the hyphens are added to the candidate only, prefix
\* and suffix stay as they were passed
GenNameIter_NoGrowth(prefix, suffix, mid) ==
    LET p == IF prefix # <<>> THEN Append(prefix, DASH) ELSE prefix
        s == IF suffix # <<>> THEN <<DASH>> \o suffix ELSE suffix
    IN  [prefix |-> prefix, suffix |-> suffix, new_name |-> p \o mid \o s]

\* one pass through the body of generate_name's while loop, up to the cache test
GenNameIter(prefix, suffix, mid) ==
    LET p == IF prefix # <<>> THEN Append(prefix, DASH) ELSE prefix
        s == IF suffix # <<>> THEN <<DASH>> \o suffix ELSE suffix
    IN  [prefix |-> p, suffix |-> s, new_name |-> p \o mid \o s]

\* generate_name's while loop from (prefix, suffix) on: every (cached, returned)
\* pair it can end with.  All candidates of one pass share prefix and suffix; a
\* later pass is reached only when some candidate of this one is in the cache,
\* and with prefix and suffix both "" every pass has the same candidates.
RECURSIVE GenNameLoop(_, _, _, _)
GenNameLoop(prefix, suffix, mids, cache) ==
    LET its   == {GenNameIter(prefix, suffix, m) : m \in mids}
        fresh == {it \in its : it.new_name \notin cache}
        out   == {[new_name |-> it.new_name, name |-> DBL_DASH_sub(it.new_name)] :
                     it \in fresh}
        nxt   == CHOOSE it \in its : TRUE
    IN  IF fresh = its \/ (nxt.prefix = prefix /\ nxt.suffix = suffix) THEN out
        ELSE out \cup GenNameLoop(nxt.prefix, nxt.suffix, mids, cache)

\* generate_name(config, prefix, suffix, dynamic, generator, cache): the set of
\* results; empty when the loop can never leave
generate_name(cfg, prefix, suffix, dynamic, generator, cache) ==
    GenNameLoop(prefix, suffix, Mids(cfg, dynamic, generator), cache)

\* mutant of generate_resource_id: the candidates are tested against an empty
\* cache, not against SEEN_RESOURCE_IDS
generate_resource_id_NoCache(cfg, cache) ==
    generate_name(cfg, <<>>, <<>>, TRUE, "generate_number_str", {})

\* generate_resource_id(config) with its defaults prefix="", suffix="", dynamic=True
generate_resource_id(cfg, cache) ==
    generate_name(cfg, <<>>, <<>>, TRUE, "generate_number_str", cache)

RECURSIVE JoinPipe(_)
JoinPipe(ls) ==
    IF Len(ls) = 0 THEN <<>>
    ELSE IF Len(ls) = 1 THEN ls[1]
    ELSE ls[1] \o <<"|">> \o JoinPipe(Tail(ls))

\* generate_labels(num_labels)
generate_labels(num_labels) ==
    {JoinPipe([i \in 1..num_labels |-> <<"label_", ks[i], ":", vs[i]>>]) :
        ks \in [1..num_labels -> Words], vs \in [1..num_labels -> Words]}

-----------------------------------------------------------------------------
(* Python values whose type matters: a record of the type's name and the value *)

None == [type |-> "NoneType", val |-> "None"]
sys_stdout == [type |-> "TextIOWrapper", val |-> "<stdout>"]
PyStr(x) == [type |-> "str", val |-> x]

\* the classes isinstance(v, cls) is true of, for v of type t
TypeMRO(t) ==
    IF t = "bool" THEN {"bool", "int"}
    ELSE IF t = "datetime" THEN {"datetime", "date"}
    ELSE {t}

isinstance(v, cls) == cls \in TypeMRO(v.type)

-----------------------------------------------------------------------------
(* Configuration *)

\* default_config(), the dates left out (no operation modelled here reads them)
default_config ==
    [ storage_classes |-> <<"gp2">>,
      max_name_words |-> 2,
      max_resource_id_length |-> 10,
      max_nodes |-> 1,
      max_node_cpu_cores |-> 1,
      max_node_memory_gig |-> 2,
      max_node_namespaces |-> 1,
      max_node_namespace_pods |-> 1,
      min_node_namespace_pod_seconds |-> 300,
      max_node_namespace_pod_seconds |-> 3600,
      max_node_namespace_pod_labels |-> 1,
      max_node_namespace_volumes |-> 1,
      max_node_namespace_volume_request_gig |-> 20,
      max_node_namespace_volume_labels |-> 1,
      max_node_namespace_volume_volume_claims |-> 1,
      max_node_namespace_volume_volume_claim_labels |-> 1,
      max_node_namespace_volume_volume_claim_capacity_gig |-> 20 ]

-----------------------------------------------------------------------------
(* generate_name, one action per pass through its while loop *)

NoFrame ==
    [ prefix |-> <<>>, suffix |-> <<>>, dynamic |-> FALSE,
      prefix0 |-> <<>>, suffix0 |-> <<>>,
      iters |-> 0, entry_size |-> 0, first |-> <<>>,
      new_name |-> <<>>, result |-> <<>> ]

\* the config of the generate_name calls of SpecName: one-word names
NameConfig == [default_config EXCEPT !.max_name_words = 1]

\* the retry cap of the model; the code has none
MaxIters == MaxCalls + 3

\* arguments the callers of this module pass: "", a name, name + "-pod"
ArgPrefixes == {<<>>, <<"w1">>, <<"w1", DASH, "pod">>}
ArgSuffixes == {<<>>, <<"0">>}

NoLocals ==
    [ max_nodes |-> 0, node_ix |-> 0, max_namespaces |-> 0, namespace_ix |-> 0,
      max_pods |-> 0, pod_ix |-> 0, max_volumes |-> 0, volume_ix |-> 0,
      max_volume_claims |-> 0, volume_claim_ix |-> 0 ]

NoArgs == [output_file_name |-> None, random |-> FALSE]

OtherIdle ==
    /\ args = NoArgs
    /\ stdout = <<>>
    /\ files = {}
    /\ vconfig = <<>>
    /\ vresult = [status |-> "none", message |-> <<>>]

BuildIdle ==
    /\ config = default_config
    /\ is_random = FALSE
    /\ pc = "idle"
    /\ err = ""
    /\ frame = NoLocals
    /\ data = [nodes |-> <<>>]
    /\ builds = 0
    /\ names_out = {}
    /\ names_repeated = {}
    /\ ids_out = {}
    /\ ids_repeated = {}

InitName ==
    /\ SEEN_NAMES = {}
    /\ SEEN_RESOURCE_IDS = {}
    /\ gn = NoFrame
    /\ gn_pc = "idle"
    /\ calls = 0
    /\ BuildIdle
    /\ OtherIdle

\* def generate_name(config, prefix, suffix, dynamic, ...): new_name = None
CallGenerateName ==
    /\ gn_pc \in {"idle", "returned"}
    /\ calls < MaxCalls
    /\ \E prefix \in ArgPrefixes, suffix \in ArgSuffixes, dynamic \in BOOLEAN :
          gn' = [NoFrame EXCEPT !.prefix = prefix, !.suffix = suffix,
                                !.dynamic = dynamic,
                                !.prefix0 = prefix, !.suffix0 = suffix,
                                !.entry_size = Cardinality(SEEN_NAMES)]
    /\ gn_pc' = "loop"
    /\ calls' = calls + 1
    /\ UNCHANGED <<SEEN_NAMES, SEEN_RESOURCE_IDS, build_vars, io_vars, val_vars>>

\* the frame after one more pass of the loop has built its candidate
NextFrame(mid) ==
    LET it == GenNameIter(gn.prefix, gn.suffix, mid)
    IN  [gn EXCEPT !.prefix = it.prefix, !.suffix = it.suffix,
                   !.new_name = it.new_name,
                   !.iters = gn.iters + 1,
                   !.first = IF gn.iters = 0 THEN it.new_name ELSE gn.first]

\* a pass whose candidate is in the cache: `while True` goes round again
LoopRetry ==
    /\ gn_pc = "loop"
    /\ gn.iters < MaxIters
    /\ \E mid \in Mids(NameConfig, gn.dynamic, "generate_words") :
          /\ NextFrame(mid).new_name \in SEEN_NAMES
          /\ gn' = NextFrame(mid)
    /\ UNCHANGED <<SEEN_NAMES, SEEN_RESOURCE_IDS, gn_pc, calls, build_vars, io_vars, val_vars>>

\* a pass whose candidate is new: cache.add, break, return DBL_DASH.sub(...)
LoopAccept ==
    /\ gn_pc = "loop"
    /\ gn.iters < MaxIters
    /\ \E mid \in Mids(NameConfig, gn.dynamic, "generate_words") :
          /\ NextFrame(mid).new_name \notin SEEN_NAMES
          /\ SEEN_NAMES' = SEEN_NAMES \cup {NextFrame(mid).new_name}
          /\ gn' = [NextFrame(mid) EXCEPT
                        !.result = DBL_DASH_sub(NextFrame(mid).new_name)]
    /\ gn_pc' = "returned"
    /\ UNCHANGED <<SEEN_RESOURCE_IDS, calls, build_vars, io_vars, val_vars>>

-----------------------------------------------------------------------------
(* build_data, one action per pass through each of its loops *)

caches == <<SEEN_NAMES, SEEN_RESOURCE_IDS>>
logs == <<names_out, names_repeated, ids_out, ids_repeated>>

\* mutant of Count: the randomized count starts at 0
Count_FromZero(r, mx) == IF r THEN random_int(0, mx, 1) ELSE {mx}

\* `FAKER.random_int(1, mx) if _random else mx`
Count(r, mx) == IF r THEN random_int(1, mx, 1) ELSE {mx}

\* (max_node_cpu_cores, max_node_memory_gig, min_node_namespace_pod_seconds,
\* max_node_namespace_pod_seconds) of the configs: with a cpu, a memory or a
\* pod seconds range of more than one value
Resources == {<<2, 1, 3, 5>>, <<1, 2, 3, 5>>, <<1, 1, 35, 40>>}

\* the same with every range of one value
UnitResources == {<<1, 1, 3, 5>>}

\* the same with the pod seconds minimum above the maximum
InvertedResources == {<<1, 1, 7, 5>>}

\* default_config() with one-word names, one-character resource ids, no labels
\* and gig bounds of 1
SmallConfig(res) ==
    [default_config EXCEPT
        !.max_name_words = 1,
        !.max_resource_id_length = 0,
        !.max_node_cpu_cores = res[1],
        !.max_node_memory_gig = res[2],
        !.min_node_namespace_pod_seconds = res[3],
        !.max_node_namespace_pod_seconds = res[4],
        !.max_node_namespace_pod_labels = 0,
        !.max_node_namespace_volume_request_gig = 1,
        !.max_node_namespace_volume_labels = 0,
        !.max_node_namespace_volume_volume_claim_labels = 0,
        !.max_node_namespace_volume_volume_claim_capacity_gig = 1]

\* the configs the model runs build_data on: SmallConfig with one of the five
\* cardinalities set to 0..MaxCount, the other four at their default of 1;
\* validate_config accepts each
Configs(resources) ==
    UNION { { [SmallConfig(res) EXCEPT !.max_nodes = k],
              [SmallConfig(res) EXCEPT !.max_node_namespaces = k],
              [SmallConfig(res) EXCEPT !.max_node_namespace_pods = k],
              [SmallConfig(res) EXCEPT !.max_node_namespace_volumes = k],
              [SmallConfig(res) EXCEPT !.max_node_namespace_volume_volume_claims = k] } :
            k \in 0..MaxCount, res \in resources }

\* the fixed-mode scenario: 2 nodes, 1 namespace, 2 pods, 1 volume, 3 claims
Scenario ==
    [default_config EXCEPT
        !.max_name_words = 1,
        !.max_resource_id_length = 1,
        !.max_nodes = 2,
        !.max_node_namespace_pods = 2,
        !.max_node_namespace_pod_labels = 0,
        !.max_node_namespace_volume_labels = 0,
        !.max_node_namespace_volume_volume_claims = 3,
        !.max_node_namespace_volume_volume_claim_labels = 0]

\* the configs of Configs that vary max_nodes, the number of
\* generate_resource_id calls of a build
NodeConfigs(resources) ==
    { [SmallConfig(res) EXCEPT !.max_nodes = k] : k \in 0..MaxCount, res \in resources }

\* (config, args.random) of the processes that call build_data several times
Runs ==
    (Configs(UnitResources \cup InvertedResources) \X {FALSE})
      \cup (NodeConfigs(UnitResources) \X {TRUE})

\* (config, args.random, args.output_file_name) of the processes that call
\* process_template
TemplateRuns ==
    ((Configs(Resources) \X BOOLEAN) \cup {<<Scenario, FALSE>>})
        \X {PyStr("out.yml")}
      \cup (Configs(UnitResources) \X BOOLEAN) \X {None}

InitBuild ==
    /\ SEEN_NAMES = {}
    /\ SEEN_RESOURCE_IDS = {}
    /\ gn = NoFrame
    /\ gn_pc = "idle"
    /\ calls = 0
    /\ \E run \in Runs :
          /\ config = run[1]
          /\ args = [output_file_name |-> PyStr("out.yml"), random |-> run[2]]
    /\ is_random = FALSE
    /\ stdout = <<>>
    /\ files = {}
    /\ vconfig = <<>>
    /\ vresult = [status |-> "none", message |-> <<>>]
    /\ pc = "idle"
    /\ err = ""
    /\ frame = NoLocals
    /\ data = [nodes |-> <<>>]
    /\ builds = 0
    /\ names_out = {}
    /\ names_repeated = {}
    /\ ids_out = {}
    /\ ids_repeated = {}

\* an exception leaves build_data
Raise(e) == pc' = "raised" /\ err' = e

\* a generate_name loop that can never leave
Spin == pc' = "spin" /\ err' = ""

Goto(p) == pc' = p /\ err' = ""

\* a generate_name result reaches build_data
LogName(nm) ==
    /\ SEEN_NAMES' = SEEN_NAMES \cup {nm.new_name}
    /\ names_out' = names_out \cup {nm.name}
    /\ names_repeated' = names_repeated \cup ({nm.name} \cap names_out)

\* a generate_resource_id result reaches build_data
LogId(id) ==
    /\ SEEN_RESOURCE_IDS' = SEEN_RESOURCE_IDS \cup {id.new_name}
    /\ ids_out' = ids_out \cup {id.name}
    /\ ids_repeated' = ids_repeated \cup ({id.name} \cap ids_out)

\* seq[i] of Python, i possibly negative
PyIndexOK(seq, i) == -Len(seq) <= i /\ i < Len(seq)
PyIndex(seq, i) == IF i < 0 THEN seq[Len(seq) + i + 1] ELSE seq[i + 1]

NodeNo == Len(data.nodes)
CurNode == data.nodes[NodeNo]
NamespaceNo == Len(CurNode.namespaces)
CurNamespace == CurNode.namespaces[NamespaceNo]
VolumeNo == Len(CurNamespace.volumes)

\* lines 189-196: data = dicta(...), max_nodes
BuildDataEntry(r) ==
    /\ is_random' = r
    /\ builds' = builds + 1
    /\ data' = [nodes |-> <<>>]
    /\ LET ns == Count(r, config.max_nodes)
       IN  IF ns = {} THEN Raise("ValueError") /\ frame' = NoLocals
           ELSE \E n \in ns :
                  /\ frame' = [NoLocals EXCEPT !.max_nodes = n]
                  /\ Goto("nodes")
    /\ UNCHANGED <<caches, logs, config, name_vars, io_vars, val_vars>>

\* build_data(config, args.random) called, for the first time or again
CallBuildData ==
    /\ pc \in {"idle", "returned"}
    /\ builds < MaxBuilds
    /\ BuildDataEntry(args.random)

\* lines 198-219: one pass of `for node_ix in range(max_nodes)` up to the
\* namespace loop
BuildNode ==
    /\ pc = "nodes"
    /\ frame.node_ix < frame.max_nodes
    /\ LET cores == Count(is_random, config.max_node_cpu_cores)
           mems  == Count(is_random, config.max_node_memory_gig)
           names == generate_name(config, <<>>, <<>>, TRUE, "generate_words", SEEN_NAMES)
           rids  == generate_resource_id(config, SEEN_RESOURCE_IDS)
           nss   == Count(is_random, config.max_node_namespaces)
       IN  IF cores = {} \/ mems = {}
           THEN Raise("ValueError") /\ UNCHANGED <<caches, logs, frame, data>>
           ELSE IF names = {}
           THEN Spin /\ UNCHANGED <<caches, logs, frame, data>>
           ELSE \E nm \in names :
                  /\ LogName(nm)
                  /\ IF rids = {}
                     THEN /\ Spin
                          /\ UNCHANGED <<SEEN_RESOURCE_IDS, ids_out, ids_repeated,
                                         frame, data>>
                     ELSE \E id \in rids, c \in cores, m \in mems :
                            /\ LogId(id)
                            /\ data' = [data EXCEPT !.nodes = Append(@,
                                  [ name |-> nm.name, cpu_cores |-> c,
                                    memory_gig |-> m, resource_id |-> id.name,
                                    namespaces |-> <<>> ])]
                            /\ IF nss = {}
                               THEN Raise("ValueError") /\ frame' = frame
                               ELSE \E k \in nss :
                                      /\ frame' = [frame EXCEPT
                                            !.max_namespaces = k, !.namespace_ix = 0]
                                      /\ Goto("namespaces")
    /\ UNCHANGED <<config, is_random, builds, name_vars, io_vars, val_vars>>

\* line 305: the node loop is over, return data
ReturnData ==
    /\ pc = "nodes"
    /\ frame.node_ix >= frame.max_nodes
    /\ Goto("returned")
    /\ UNCHANGED <<caches, logs, config, is_random, frame, data, builds, name_vars, io_vars, val_vars>>

\* lines 221-232: one pass of `for namespace_ix in range(max_namespaces)` up
\* to the pod loop
BuildNamespace ==
    /\ pc = "namespaces"
    /\ frame.namespace_ix < frame.max_namespaces
    /\ LET names == generate_name(config, CurNode.name, <<>>, TRUE,
                                  "generate_words", SEEN_NAMES)
           ps    == Count(is_random, config.max_node_namespace_pods)
       IN  IF names = {}
           THEN Spin /\ UNCHANGED <<SEEN_NAMES, names_out, names_repeated, frame, data>>
           ELSE \E nm \in names :
                  /\ LogName(nm)
                  /\ data' = [data EXCEPT !.nodes[NodeNo].namespaces = Append(@,
                        [name |-> nm.name, pods |-> <<>>, volumes |-> <<>>])]
                  /\ IF ps = {}
                     THEN Raise("ValueError") /\ frame' = frame
                     ELSE \E k \in ps :
                            /\ frame' = [frame EXCEPT !.max_pods = k, !.pod_ix = 0]
                            /\ Goto("pods")
    /\ UNCHANGED <<SEEN_RESOURCE_IDS, ids_out, ids_repeated, config, is_random,
                   builds, name_vars, io_vars, val_vars>>

\* the namespace loop of a node is over: next pass of the node loop
NamespacesDone ==
    /\ pc = "namespaces"
    /\ frame.namespace_ix >= frame.max_namespaces
    /\ frame' = [frame EXCEPT !.node_ix = @ + 1]
    /\ Goto("nodes")
    /\ UNCHANGED <<caches, logs, config, is_random, data, builds, name_vars, io_vars, val_vars>>

\* line 242: step=(config.max_node_namespace_pod_seconds // 10) or 1800
PodSecondsStep(cfg) ==
    IF cfg.max_node_namespace_pod_seconds \div 10 # 0
    THEN cfg.max_node_namespace_pod_seconds \div 10
    ELSE 1800

\* mutant of PodValues: the randomized values are bounded by the configured
\* maxima, not by the node's own values
PodValues_ConfigBound(cfg, r, node) ==
    IF r
    THEN random_int(1, cfg.max_node_cpu_cores, 1)
         \X random_int(1, cfg.max_node_memory_gig, 1)
         \X random_int(1, cfg.max_node_cpu_cores, 1)
         \X random_int(1, cfg.max_node_memory_gig, 1)
         \X random_int(cfg.min_node_namespace_pod_seconds,
                       cfg.max_node_namespace_pod_seconds, PodSecondsStep(cfg))
    ELSE {<<node.cpu_cores, node.memory_gig, node.cpu_cores, node.memory_gig,
            cfg.max_node_namespace_pod_seconds>>}

\* lines 234-247: the values (cpu_req, mem_req, cpu_lim, mem_lim, pod_sec) of a pod
PodValues(cfg, r, node) ==
    IF r
    THEN random_int(1, node.cpu_cores, 1) \X random_int(1, node.memory_gig, 1)
         \X random_int(1, node.cpu_cores, 1) \X random_int(1, node.memory_gig, 1)
         \X random_int(cfg.min_node_namespace_pod_seconds,
                       cfg.max_node_namespace_pod_seconds, PodSecondsStep(cfg))
    ELSE {<<node.cpu_cores, node.memory_gig, node.cpu_cores, node.memory_gig,
            cfg.max_node_namespace_pod_seconds>>}

\* lines 233-258: one pass of `for pod_ix in range(max_pods)`
BuildPod ==
    /\ pc = "pods"
    /\ frame.pod_ix < frame.max_pods
    /\ LET vals  == PodValues(config, is_random, CurNode)
           names == generate_name(config, CurNamespace.name \o <<DASH, "pod">>,
                                  Str(frame.pod_ix), FALSE, "generate_words",
                                  SEEN_NAMES)
           labs  == generate_labels(config.max_node_namespace_pod_labels)
       IN  IF vals = {}
           THEN Raise("ValueError")
                /\ UNCHANGED <<SEEN_NAMES, names_out, names_repeated, frame, data>>
           ELSE IF names = {}
           THEN Spin /\ UNCHANGED <<SEEN_NAMES, names_out, names_repeated, frame, data>>
           ELSE \E v \in vals, nm \in names, lab \in labs :
                  /\ LogName(nm)
                  /\ data' = [data EXCEPT
                        !.nodes[NodeNo].namespaces[NamespaceNo].pods = Append(@,
                          [ name |-> nm.name, cpu_request |-> v[1],
                            mem_request_gig |-> v[2], cpu_limit |-> v[3],
                            mem_limit_gig |-> v[4], pod_seconds |-> v[5],
                            labels |-> lab ])]
                  /\ frame' = [frame EXCEPT !.pod_ix = @ + 1]
                  /\ Goto("pods")
    /\ UNCHANGED <<SEEN_RESOURCE_IDS, ids_out, ids_repeated, config, is_random,
                   builds, name_vars, io_vars, val_vars>>

\* lines 260-265: the pod loop is over, max_volumes
PodsDone ==
    /\ pc = "pods"
    /\ frame.pod_ix >= frame.max_pods
    /\ LET vs == Count(is_random, config.max_node_namespace_volumes)
       IN  IF vs = {} THEN Raise("ValueError") /\ frame' = frame
           ELSE \E k \in vs :
                  /\ frame' = [frame EXCEPT !.max_volumes = k, !.volume_ix = 0]
                  /\ Goto("volumes")
    /\ UNCHANGED <<caches, logs, config, is_random, data, builds, name_vars, io_vars, val_vars>>

\* lines 267-272: the values (storage_cls, vol_req) of a volume; <<>> stands for
\* the IndexError of storage_classes[0] on an empty list
VolumeValues(cfg, r) ==
    IF r
    THEN {cfg.storage_classes[i + 1] :
             i \in random_int(0, Len(cfg.storage_classes) - 1, 1)}
         \X random_int(1, cfg.max_node_namespace_volume_request_gig, 1)
    ELSE IF PyIndexOK(cfg.storage_classes, 0)
         THEN {<<PyIndex(cfg.storage_classes, 0),
                 cfg.max_node_namespace_volume_request_gig>>}
         ELSE {}

\* lines 266-286: one pass of `for volume_ix in range(max_volumes)` up to the
\* volume claim loop
BuildVolume ==
    /\ pc = "volumes"
    /\ frame.volume_ix < frame.max_volumes
    /\ LET vals  == VolumeValues(config, is_random)
           names == generate_name(config, CurNamespace.name \o <<DASH, "vol">>,
                                  Str(frame.volume_ix), FALSE, "generate_words",
                                  SEEN_NAMES)
           labs  == generate_labels(config.max_node_namespace_volume_labels)
           cs    == Count(is_random, config.max_node_namespace_volume_volume_claims)
       IN  IF vals = {}
           THEN Raise(IF is_random THEN "ValueError" ELSE "IndexError")
                /\ UNCHANGED <<SEEN_NAMES, names_out, names_repeated, frame, data>>
           ELSE IF names = {}
           THEN Spin /\ UNCHANGED <<SEEN_NAMES, names_out, names_repeated, frame, data>>
           ELSE \E v \in vals, nm \in names, lab \in labs :
                  /\ LogName(nm)
                  /\ data' = [data EXCEPT
                        !.nodes[NodeNo].namespaces[NamespaceNo].volumes = Append(@,
                          [ name |-> nm.name, storage_class |-> v[1],
                            volume_request_gig |-> v[2], labels |-> lab,
                            volume_claims |-> <<>> ])]
                  /\ IF cs = {}
                     THEN Raise("ValueError") /\ frame' = frame
                     ELSE \E k \in cs :
                            /\ frame' = [frame EXCEPT
                                  !.max_volume_claims = k, !.volume_claim_ix = 0]
                            /\ Goto("volume_claims")
    /\ UNCHANGED <<SEEN_RESOURCE_IDS, ids_out, ids_repeated, config, is_random,
                   builds, name_vars, io_vars, val_vars>>

\* the volume loop of a namespace is over: next pass of the namespace loop
VolumesDone ==
    /\ pc = "volumes"
    /\ frame.volume_ix >= frame.max_volumes
    /\ frame' = [frame EXCEPT !.namespace_ix = @ + 1]
    /\ Goto("namespaces")
    /\ UNCHANGED <<caches, logs, config, is_random, data, builds, name_vars, io_vars, val_vars>>

\* mutant of ClaimPodIndex: an index out of range falls back to the first pod
ClaimPodIndex_First(volume_claim_ix, pods) ==
    IF volume_claim_ix >= Len(pods) THEN 0 ELSE volume_claim_ix

\* line 294: the index into namespace.pods
ClaimPodIndex(volume_claim_ix, pods) ==
    IF volume_claim_ix >= Len(pods) THEN -1 ELSE volume_claim_ix

\* lines 288-303: one pass of `for volume_claim_ix in range(max_volume_claims)`
BuildVolumeClaim ==
    /\ pc = "volume_claims"
    /\ frame.volume_claim_ix < frame.max_volume_claims
    /\ LET caps  == Count(is_random,
                          config.max_node_namespace_volume_volume_claim_capacity_gig)
           pods  == CurNamespace.pods
           ix    == ClaimPodIndex(frame.volume_claim_ix, pods)
           names == generate_name(config,
                                  CurNamespace.name \o <<DASH, "vol", DASH, "claim">>,
                                  Str(frame.volume_claim_ix), FALSE,
                                  "generate_words", SEEN_NAMES)
           labs  == generate_labels(
                        config.max_node_namespace_volume_volume_claim_labels)
       IN  IF caps = {}
           THEN Raise("ValueError")
                /\ UNCHANGED <<SEEN_NAMES, names_out, names_repeated, frame, data>>
           ELSE IF ~PyIndexOK(pods, ix)
           THEN Raise("IndexError")
                /\ UNCHANGED <<SEEN_NAMES, names_out, names_repeated, frame, data>>
           ELSE IF names = {}
           THEN Spin /\ UNCHANGED <<SEEN_NAMES, names_out, names_repeated, frame, data>>
           ELSE \E cap \in caps, nm \in names, lab \in labs :
                  /\ LogName(nm)
                  /\ data' = [data EXCEPT
                        !.nodes[NodeNo].namespaces[NamespaceNo]
                         .volumes[VolumeNo].volume_claims = Append(@,
                          [ name |-> nm.name, pod_name |-> PyIndex(pods, ix).name,
                            labels |-> lab, capacity_gig |-> cap ])]
                  /\ frame' = [frame EXCEPT !.volume_claim_ix = @ + 1]
                  /\ Goto("volume_claims")
    /\ UNCHANGED <<SEEN_RESOURCE_IDS, ids_out, ids_repeated, config, is_random,
                   builds, name_vars, io_vars, val_vars>>

\* the volume claim loop of a volume is over: next pass of the volume loop
VolumeClaimsDone ==
    /\ pc = "volume_claims"
    /\ frame.volume_claim_ix >= frame.max_volume_claims
    /\ frame' = [frame EXCEPT !.volume_ix = @ + 1]
    /\ Goto("volumes")
    /\ UNCHANGED <<caches, logs, config, is_random, data, builds, name_vars, io_vars, val_vars>>

NextBuild ==
    \/ CallBuildData
    \/ BuildNode
    \/ ReturnData
    \/ BuildNamespace
    \/ NamespacesDone
    \/ BuildPod
    \/ PodsDone
    \/ BuildVolume
    \/ VolumesDone
    \/ BuildVolumeClaim
    \/ VolumeClaimsDone

SpecBuild == InitBuild /\ [][NextBuild]_vars

-----------------------------------------------------------------------------
(* process_template *)

\* template.render(generator=data): the template is the user's; the text is
\* kept as the data it was rendered from
Render(d) == [rendered |-> d]

InitTemplate ==
    /\ SEEN_NAMES = {}
    /\ SEEN_RESOURCE_IDS = {}
    /\ gn = NoFrame
    /\ gn_pc = "idle"
    /\ calls = 0
    /\ \E run \in TemplateRuns :
          /\ config = run[1][1]
          /\ args = [output_file_name |-> run[2], random |-> run[1][2]]
    /\ is_random = FALSE
    /\ pc = "idle"
    /\ err = ""
    /\ frame = NoLocals
    /\ data = [nodes |-> <<>>]
    /\ builds = 0
    /\ names_out = {}
    /\ names_repeated = {}
    /\ ids_out = {}
    /\ ids_repeated = {}
    /\ stdout = <<>>
    /\ files = {}
    /\ vconfig = <<>>
    /\ vresult = [status |-> "none", message |-> <<>>]

\* line 510: data = build_data(config, args.random)
ProcessTemplate ==
    /\ pc = "idle"
    /\ BuildDataEntry(args.random)

\* open(name, "wt") takes a path; anything else is a TypeError
OpenOK(name) == name.type = "str"

\* lines 512-525: render, then write to sys.stdout or to the file
WriteOutput ==
    /\ pc = "returned"
    /\ LET output == Render(data)
       IN  IF args.output_file_name = sys_stdout
           THEN /\ stdout' = Append(stdout, output)
                /\ files' = files
                /\ Goto("written")
           ELSE IF OpenOK(args.output_file_name)
           THEN /\ files' = files \cup {<<args.output_file_name.val, output>>}
                /\ stdout' = stdout
                /\ Goto("written")
           ELSE /\ Raise("TypeError")
                /\ UNCHANGED <<stdout, files>>
    /\ UNCHANGED <<caches, logs, config, is_random, frame, data, builds, args,
                   name_vars, val_vars>>

NextTemplate ==
    \/ ProcessTemplate
    \/ BuildNode
    \/ ReturnData
    \/ BuildNamespace
    \/ NamespacesDone
    \/ BuildPod
    \/ PodsDone
    \/ BuildVolume
    \/ VolumesDone
    \/ BuildVolumeClaim
    \/ VolumeClaimsDone
    \/ WriteOutput

SpecTemplate == InitTemplate /\ [][NextTemplate]_vars

-----------------------------------------------------------------------------
(* validate_config *)

\* the validator dicta, in the order its keys were written
validator ==
    << <<"start_date", "date">>, <<"end_date", "date">>,
       <<"storage_classes", "list">>,
       <<"max_name_words", "int">>, <<"max_resource_id_length", "int">>,
       <<"max_nodes", "int">>, <<"max_node_cpu_cores", "int">>,
       <<"max_node_memory_gig", "int">>, <<"max_node_namespaces", "int">>,
       <<"max_node_namespace_pods", "int">>,
       <<"min_node_namespace_pod_seconds", "int">>,
       <<"max_node_namespace_pod_seconds", "int">>,
       <<"max_node_namespace_pod_labels", "int">>,
       <<"max_node_namespace_volumes", "int">>,
       <<"max_node_namespace_volume_request_gig", "int">>,
       <<"max_node_namespace_volume_labels", "int">>,
       <<"max_node_namespace_volume_volume_claims", "int">>,
       <<"max_node_namespace_volume_volume_claim_labels", "int">>,
       <<"max_node_namespace_volume_volume_claim_capacity_gig", "int">> >>

linesep == "\n"

RECURSIVE JoinLinesep(_)
JoinLinesep(ls) ==
    IF Len(ls) = 0 THEN <<>>
    ELSE IF Len(ls) = 1 THEN ls[1]
    ELSE ls[1] \o <<linesep>> \o JoinLinesep(Tail(ls))

\* mutant of ValidationErrors: the list stops at the first offending key
ValidationErrors_FirstOnly(cfg) ==
    LET bad(e) == e[1] \in DOMAIN cfg /\ ~isinstance(cfg[e[1]], e[2])
        line(e) == <<e[1], " Must be of type ", e[2]>>
        RECURSIVE collect(_)
        collect(es) ==
            IF Len(es) = 0 THEN <<>>
            ELSE IF bad(es[1]) THEN <<line(es[1])>>
            ELSE collect(Tail(es))
    IN  collect(validator)

\* lines 368-372: the list `result`
ValidationErrors(cfg) ==
    LET bad(e) == e[1] \in DOMAIN cfg /\ ~isinstance(cfg[e[1]], e[2])
        line(e) == <<e[1], " Must be of type ", e[2]>>
        RECURSIVE collect(_)
        collect(es) ==
            IF Len(es) = 0 THEN <<>>
            ELSE IF bad(es[1]) THEN <<line(es[1])>> \o collect(Tail(es))
            ELSE collect(Tail(es))
    IN  collect(validator)

\* lines 373-376
validate_config(cfg) ==
    LET result == ValidationErrors(cfg)
    IN  IF result # <<>>
        THEN [status |-> "TypeError", message |-> JoinLinesep(result)]
        ELSE [status |-> "True", message |-> <<>>]

\* the keys whose value the model varies, the last one unknown to the validator
VariedKeys ==
    {"start_date", "storage_classes", "max_nodes", "max_node_namespace_pods",
     "my_setting"}

ValueTypes == {"date", "datetime", "list", "int", "bool", "str"}

\* default_config() by type, updated with a settings file's values
ConfigsToValidate ==
    { [k \in ({validator[i][1] : i \in DOMAIN validator} \cup VariedKeys)
              \ {k \in VariedKeys : choice[k] = "absent"} |->
          IF k \in VariedKeys
          THEN [type |-> choice[k], val |-> "v"]
          ELSE [type |-> (CHOOSE e \in {validator[i] : i \in DOMAIN validator} :
                            e[1] = k)[2],
                val |-> "v"]] :
        choice \in [VariedKeys -> ValueTypes \cup {"absent"}] }

InitValidate ==
    /\ SEEN_NAMES = {}
    /\ SEEN_RESOURCE_IDS = {}
    /\ gn = NoFrame
    /\ gn_pc = "idle"
    /\ calls = 0
    /\ BuildIdle
    /\ args = NoArgs
    /\ stdout = <<>>
    /\ files = {}
    /\ vconfig \in ConfigsToValidate
    /\ vresult = [status |-> "none", message |-> <<>>]

\* validate_config(config) runs
ValidateConfig ==
    /\ vresult.status = "none"
    /\ vresult' = validate_config(vconfig)
    /\ UNCHANGED <<caches, name_vars, build_vars, io_vars, vconfig>>

NextValidate == ValidateConfig

SpecValidate == InitValidate /\ [][NextValidate]_vars

NextName == CallGenerateName \/ LoopRetry \/ LoopAccept

SpecName == InitName /\ [][NextName]_vars

-----------------------------------------------------------------------------
(* The claims *)

Min(a, b) == IF a <= b THEN a ELSE b

\* the (node, namespace) index pairs of the dataset built so far
NamespaceIxs ==
    UNION {{<<n, m>> : m \in DOMAIN data.nodes[n].namespaces} : n \in DOMAIN data.nodes}

NamespaceAt(nm) == data.nodes[nm[1]].namespaces[nm[2]]

\* the pods of the dataset built so far, each with its owning node
PodsWithNode ==
    UNION {{[node |-> data.nodes[nm[1]], pod |-> NamespaceAt(nm).pods[i]] :
               i \in DOMAIN NamespaceAt(nm).pods} : nm \in NamespaceIxs}

\* C1: no value generate_name returns to build_data, for a node, namespace, pod,
\* volume or volume claim, has been returned by it before, in this build_data
\* call or in an earlier one of the process.
C1_NamesNeverRepeat == names_repeated = {}

\* C2: no value generate_resource_id returns has been returned by it before, in
\* this build_data call or an earlier one, and every value it has returned is in
\* SEEN_RESOURCE_IDS; so the nodes of a dataset have pairwise different
\* resource ids.
C2_ResourceIdsUnique ==
    /\ ids_repeated = {}
    /\ ids_out \subseteq SEEN_RESOURCE_IDS
    /\ \A i, j \in DOMAIN data.nodes :
          i # j => data.nodes[i].resource_id # data.nodes[j].resource_id
    /\ \A i \in DOMAIN data.nodes : data.nodes[i].resource_id \in ids_out

\* a second build_data call of the process has returned, and the process has
\* handed out two resource ids
C2_Witness ==
    /\ pc = "returned"
    /\ builds = 2
    /\ Len(data.nodes) = 1
    /\ Cardinality(ids_out) = 2

\* every cardinality but the pod count is at least 1, and the pod seconds
\* range is not empty
C3_Scope ==
    /\ config.max_nodes >= 1
    /\ config.max_node_namespaces >= 1
    /\ config.max_node_namespace_volumes >= 1
    /\ config.max_node_namespace_volume_volume_claims >= 1
    /\ config.min_node_namespace_pod_seconds <= config.max_node_namespace_pod_seconds

\* C3: build_data raises nothing and every volume claim's pod_name is the name
\* of a pod of the claim's namespace; stated for the configs whose bounds other
\* than max_node_namespace_pods are at least 1, max_node_namespace_pods = 0
\* among them.
C3_BuildCompletesClaimsResolve ==
    C3_Scope =>
      /\ pc # "raised"
      /\ \A nm \in NamespaceIxs :
            \A v \in DOMAIN NamespaceAt(nm).volumes :
              \A j \in DOMAIN NamespaceAt(nm).volumes[v].volume_claims :
                \E i \in DOMAIN NamespaceAt(nm).pods :
                  NamespaceAt(nm).volumes[v].volume_claims[j].pod_name
                    = NamespaceAt(nm).pods[i].name

\* C4: in a namespace with p >= 1 pods, the volume claim with index i of any
\* volume has the pod_name of pod number min(i, p - 1) of the namespace.
C4_ClaimPodClamped ==
    \A nm \in NamespaceIxs :
      LET ns == NamespaceAt(nm)
          p  == Len(ns.pods)
      IN  p >= 1 =>
            \A v \in DOMAIN ns.volumes :
              \A j \in DOMAIN ns.volumes[v].volume_claims :
                ns.volumes[v].volume_claims[j].pod_name
                  = ns.pods[Min(j - 1, p - 1) + 1].name

\* a returned dataset holds a namespace of 2 pods and a volume of 3 claims
C4_Witness ==
    /\ pc = "returned"
    /\ \E nm \in NamespaceIxs :
          /\ Len(NamespaceAt(nm).pods) = 2
          /\ \E v \in DOMAIN NamespaceAt(nm).volumes :
                Len(NamespaceAt(nm).volumes[v].volume_claims) = 3

\* the number of children `count` against the configured maximum `mx`
CardinalityOK(count, mx) ==
    IF is_random THEN 1 <= count /\ count <= mx ELSE count = mx

\* C5: in the dataset build_data returns, each of the five cardinalities is the
\* configured maximum in fixed mode and within [1, configured maximum] in
\* randomized mode.
C5_Cardinalities ==
    pc = "returned" =>
      /\ CardinalityOK(Len(data.nodes), config.max_nodes)
      /\ \A n \in DOMAIN data.nodes :
            CardinalityOK(Len(data.nodes[n].namespaces), config.max_node_namespaces)
      /\ \A nm \in NamespaceIxs :
            /\ CardinalityOK(Len(NamespaceAt(nm).pods), config.max_node_namespace_pods)
            /\ CardinalityOK(Len(NamespaceAt(nm).volumes),
                             config.max_node_namespace_volumes)
            /\ \A v \in DOMAIN NamespaceAt(nm).volumes :
                  CardinalityOK(Len(NamespaceAt(nm).volumes[v].volume_claims),
                                config.max_node_namespace_volume_volume_claims)

\* randomized mode has returned a dataset with fewer nodes than the maximum
C5_Witness ==
    /\ pc = "returned"
    /\ is_random
    /\ Len(data.nodes) < config.max_nodes

C7_PodSecondsInRange ==
    \A e \in PodsWithNode :
      /\ config.min_node_namespace_pod_seconds <= e.pod.pod_seconds
      /\ e.pod.pod_seconds <= config.max_node_namespace_pod_seconds
      /\ is_random =>
           /\ PodSecondsStep(config) # 0
           /\ (e.pod.pod_seconds - config.min_node_namespace_pod_seconds)
                % PodSecondsStep(config) = 0

\* the keys the validator declares
KnownKeys == {validator[i][1] : i \in DOMAIN validator}

\* the type a known key must have: date, list or int
DeclaredType(k) ==
    IF k \in {"start_date", "end_date"} THEN "date"
    ELSE IF k = "storage_classes" THEN "list"
    ELSE "int"

\* the known keys present in vconfig whose value is not of the declared type
WrongTyped ==
    {k \in KnownKeys \cap DOMAIN vconfig : ~isinstance(vconfig[k], DeclaredType(k))}

\* the keys a message names: the first token of each of its lines
NamedKeys(message) ==
    {message[i] : i \in {j \in DOMAIN message : j = 1 \/ message[j - 1] = linesep}}

\* C8: validate_config raises one TypeError whose message names exactly the
\* known keys present with a value of the wrong type, and returns True when
\* there is none; absent and unknown keys are never named.
C8_ValidationComplete ==
    vresult.status # "none" =>
      IF WrongTyped = {}
      THEN vresult.status = "True"
      ELSE vresult.status = "TypeError" /\ NamedKeys(vresult.message) = WrongTyped

\* validate_config has raised for a config with two wrong-typed known keys and
\* an unknown key
C8_Witness ==
    /\ vresult.status = "TypeError"
    /\ Cardinality(WrongTyped) = 2
    /\ "my_setting" \in DOMAIN vconfig

\* C9: process_template, once build_data has returned, raises nothing; without
\* an output path the rendered text goes to standard output, with one it goes
\* to that file.
C9_OutputWritten ==
    /\ ~(pc = "raised" /\ err = "TypeError")
    /\ pc = "written" =>
         IF args.output_file_name = None
         THEN stdout = <<Render(data)>> /\ files = {}
         ELSE stdout = <<>> /\ files = {<<args.output_file_name.val, Render(data)>>}

\* a generate_name call with dynamic=False and a prefix or suffix that is not ""
C10_Scope == ~gn.dynamic /\ (gn.prefix0 # <<>> \/ gn.suffix0 # <<>>)

\* the hyphens one pass adds to the candidate of the call
C10_Growth ==
    (IF gn.prefix0 # <<>> THEN 1 ELSE 0) + (IF gn.suffix0 # <<>> THEN 1 ELSE 0)

\* C10: a generate_name call with dynamic=False and a non-empty prefix or
\* suffix makes at most (size of the cache at the call) + 1 passes through its
\* loop, each candidate one hyphen per non-empty part longer than the one
\* before, and returns what collapsing the hyphen runs of its first candidate
\* gives.
C10_StaticNameTerminates ==
    C10_Scope =>
      /\ gn.iters <= gn.entry_size + 1
      /\ gn_pc = "loop" => gn.iters <= gn.entry_size
      /\ gn.iters >= 1 =>
           Len(gn.new_name) = Len(gn.prefix0) + Len(gn.suffix0) + gn.iters * C10_Growth
      /\ gn_pc = "returned" =>
           /\ gn.result = DBL_DASH_sub(gn.first)
           /\ gn.new_name \in SEEN_NAMES

\* such a call has returned after its first two candidates were in the cache
C10_Witness ==
    /\ C10_Scope
    /\ gn_pc = "returned"
    /\ gn.iters = 3

====
